---------------------------- MODULE Spec2Model ----------------------------
(***************************************************************************)
(* Snake on a toroidal grid (src/src/main.rs): the grid geometry, the A*   *)
(* path planner, the flood-fill reachability analyser, the agent's         *)
(* decision policy and the tick state machine.                             *)
(*                                                                         *)
(* The grid of the program is 40 x 30 (SCREEN_WIDTH / CELL_SIZE by         *)
(* SCREEN_HEIGHT / CELL_SIZE).  The model keeps every formula of the       *)
(* source but runs on a small grid: GRID_WIDTH and GRID_HEIGHT are bounds  *)
(* of the model.  The initial apple, Position::new(10, 10) in the source,  *)
(* is placed at (GRID_WIDTH / 4, GRID_HEIGHT / 3), which is (10, 10) on    *)
(* the 40 x 30 grid.                                                       *)
(***************************************************************************)
EXTENDS Integers, Sequences, FiniteSets

(***************************************************************************)
(* Bounds of the model.                                                    *)
(***************************************************************************)
GRID_WIDTH == 4

GRID_HEIGHT == 4

\* A session is followed until its score is MaxScore.
MaxScore == 2

\* A session played by the agent alone from its start is followed until its
\* score is AgentMaxScore.
AgentMaxScore == 2

\* A session played by the agent alone from the fifth apple on is followed
\* until its score is LateMaxScore.
LateMaxScore == 6

VARIABLES
    \* ---- one call of AIAgent::find_path (lines 121-169) ----
    start,          \* argument start
    goal,           \* argument goal
    obstacles,      \* argument obstacles
    path_result,    \* the returned Option<Vec<Direction>>
    path_pc,        \* "idle" before the call | "loop" inside the loop of
                    \* line 133 | "done" after the call
    open_set,       \* the frontier, when the call is followed pop by pop
    closed_set,     \* the closed set, likewise
    came_from       \* the predecessor map, likewise

pathVars == <<start, goal, obstacles, path_result, path_pc,
              open_set, closed_set, came_from>>

VARIABLES
    \* ---- calls of AIAgent::flood_fill (lines 171-187) ----
    flood_start,    \* argument start
    flood_less,     \* a forbidden set
    flood_more,     \* a forbidden set that includes flood_less
    count_less,     \* flood_fill(flood_start, flood_less)
    count_more,     \* flood_fill(flood_start, flood_more)
    flood_pc        \* "idle" before the calls | "done" after them

floodVars == <<flood_start, flood_less, flood_more, count_less, count_more, flood_pc>>

VARIABLES
    \* ---- the session of main (lines 573-628) ----
    body,           \* game.snake.body, head first
    direction,      \* game.snake.direction, the active heading
    next_direction, \* game.snake.next_direction, the pending heading
    apple,          \* game.apple
    score,          \* game.score
    game_over,      \* game.game_over
    mode,           \* game.mode: "Human" | "AI"
    elapsed,        \* game.last_tick.elapsed() >= TICK_DURATION
    pc              \* main's loop: "input" (line 590) | "tick" (line 622)

gameVars == <<body, direction, next_direction, apple, score, game_over, mode,
              elapsed, pc>>

VARIABLES
    \* ---- one call of GameState::spawn_apple (lines 382-397) ----
    spawn_pos,      \* pos, the position sampled last (line 387)
    spawn_pc        \* "loop" inside the loop | "done" after the break

spawnVars == <<spawn_pos, spawn_pc>>

vars == <<pathVars, floodVars, gameVars, spawnVars>>

----------------------------------------------------------------------------
(***************************************************************************)
(* Grid & geometry (lines 24-86).                                          *)
(***************************************************************************)

Position(px, py) == [x |-> px, y |-> py]

Cells == {Position(px, py) : px \in 0..(GRID_WIDTH - 1), py \in 0..(GRID_HEIGHT - 1)}

\* Direction::all(): the enumeration order Up, Down, Left, Right.
Direction_all == <<"Up", "Down", "Left", "Right">>

Direction == {Direction_all[i] : i \in 1..4}

\* Direction::delta
delta(dir) ==
    CASE dir = "Up"    -> <<0, -1>>
      [] dir = "Down"  -> <<0, 1>>
      [] dir = "Left"  -> <<-1, 0>>
      [] dir = "Right" -> <<1, 0>>

\* Direction::opposite
opposite(dir) ==
    CASE dir = "Up"    -> "Down"
      [] dir = "Down"  -> "Up"
      [] dir = "Left"  -> "Right"
      [] dir = "Right" -> "Left"

\* i32::rem_euclid for a positive modulus: TLA+'s % is already floored.
rem_euclid(a, m) == a % m

\* Position::move_by: both axes wrap independently.
move_by(pos, dir) ==
    Position(rem_euclid(pos.x + delta(dir)[1], GRID_WIDTH),
             rem_euclid(pos.y + delta(dir)[2], GRID_HEIGHT))

abs(a) == IF a < 0 THEN -a ELSE a

\* Position::manhattan_distance: not wrap-aware.
manhattan_distance(a, b) == abs(a.x - b.x) + abs(a.y - b.y)

\* Position::neighbors: the four (direction, position) pairs, in Direction::all order.
neighbors(pos) ==
    [i \in 1..4 |-> [direction |-> Direction_all[i],
                     position |-> move_by(pos, Direction_all[i])]]

----------------------------------------------------------------------------
(***************************************************************************)
(* A* path planner (lines 92-169).                                         *)
(***************************************************************************)

Node(pos, g, h, par) == [position |-> pos, g_cost |-> g, h_cost |-> h, parent |-> par]

\* Node::f_cost
f_cost(n) == n.g_cost + n.h_cost

\* The test of line 151 with the skip of a forbidden cell left out.
PassableIgnoringObstacles(neighbor, obs, closed) == neighbor \notin closed

\* The test of line 151 with the skip of a closed cell left out.
PassableIgnoringClosed(neighbor, obs, closed) == neighbor \notin obs

\* Line 151: a neighbour is pushed unless it is an obstacle or already closed.
Passable(neighbor, obs, closed) == neighbor \notin obs /\ neighbor \notin closed

\* Lines 150-165 with the closed test of line 151 made on the popped cell
\* instead of the neighbour.
PushedIndicesTestingCurrent(current, obs, closed) ==
    {i \in 1..4 : /\ neighbors(current.position)[i].position \notin obs
                  /\ current.position \notin closed}

\* Lines 150-165, the indices (into neighbors) of the neighbours that are pushed.
PushedIndices(current, obs, closed) ==
    {i \in 1..4 : Passable(neighbors(current.position)[i].position, obs, closed)}

\* Lines 155-164: the node pushed for neighbour i of current.
PushedNode(current, i, g) ==
    Node(neighbors(current.position)[i].position,
         current.g_cost + 1,
         manhattan_distance(neighbors(current.position)[i].position, g),
         neighbors(current.position)[i].direction)

\* Line 158: came_from.insert(neighbor, direction) for every pushed neighbour.
\* HashMap::insert replaces an entry that is already there.  The four
\* neighbours of a cell may coincide only on a grid narrower than 3, where the
\* later direction of the loop wins.
InsertAll(cf, current, idx) ==
    LET nb == neighbors(current.position)
        keys == {nb[i].position : i \in idx}
        last(c) == CHOOSE i \in idx :
                      /\ nb[i].position = c
                      /\ \A j \in idx : nb[j].position = c => j <= i
    IN  [c \in (DOMAIN cf) \cup keys |->
            IF c \in keys THEN nb[last(c)].direction ELSE cf[c]]

\* Lines 135-142: walk the predecessor map back from pos, newest move first.
RECURSIVE WalkBack(_, _, _)
WalkBack(cf, pos, fuel) ==
    IF pos \notin DOMAIN cf \/ fuel = 0 THEN <<>>
    ELSE <<cf[pos]>> \o WalkBack(cf, move_by(pos, opposite(cf[pos])), fuel - 1)

Reverse(s) == [i \in 1..Len(s) |-> s[Len(s) + 1 - i]]

\* More moves than any acyclic predecessor chain has: a longer walk is a cycle.
WalkFuel == GRID_WIDTH * GRID_HEIGHT + 1

\* Lines 135-142 without path.reverse() (line 141).
ReconstructPathUnreversed(cf, g) == WalkBack(cf, g, WalkFuel)

ReconstructPath(cf, g) == Reverse(WalkBack(cf, g, WalkFuel))

Some(v) == [some |-> TRUE, value |-> v]

None == [some |-> FALSE, value |-> <<>>]

\* Node::cmp and partial_cmp (lines 106-116): a <= b exactly when b's f_cost
\* is not above a's, which makes the max-heap pop a least f_cost first.
NodeLe(a, b) == f_cost(b) <= f_cost(a)

\* usize::saturating_sub
saturating_sub(a, b) == IF a < b THEN 0 ELSE a - b

(***************************************************************************)
(* std::collections::BinaryHeap as open_set uses it (lines 122, 126, 133,  *)
(* 159).  The heap is its Vec, data[pos + 1] holding the element at the    *)
(* 0-based index pos.  The order in which nodes of equal f_cost are popped *)
(* is the one these sift loops produce.                                    *)
(***************************************************************************)

\* BinaryHeap::sift_up with the element elt taken out of the hole at pos.
RECURSIVE sift_up_hole(_, _, _, _)
sift_up_hole(data, elt, first, pos) ==
    IF pos > first
    THEN LET parent == (pos - 1) \div 2
         IN  IF NodeLe(elt, data[parent + 1])
             THEN [data EXCEPT ![pos + 1] = elt]
             ELSE sift_up_hole([data EXCEPT ![pos + 1] = data[parent + 1]],
                               elt, first, parent)
    ELSE [data EXCEPT ![pos + 1] = elt]

sift_up(data, first, pos) == sift_up_hole(data, data[pos + 1], first, pos)

\* BinaryHeap::push
BinaryHeap_push(data, item) == sift_up(Append(data, item), 0, Len(data))

\* BinaryHeap::sift_down_to_bottom: the hole goes down to a leaf along the
\* greater children (the right one when the two compare equal), then the
\* element is sifted up from there.
RECURSIVE sift_down_hole(_, _, _)
sift_down_hole(data, elt, pos) ==
    LET end == Len(data)
        child == 2 * pos + 1
    IN  IF child <= saturating_sub(end, 2)
        THEN LET c == IF NodeLe(data[child + 1], data[child + 2])
                      THEN child + 1 ELSE child
             IN  sift_down_hole([data EXCEPT ![pos + 1] = data[c + 1]], elt, c)
        ELSE IF child = end - 1
             THEN sift_up_hole([data EXCEPT ![pos + 1] = data[child + 1]],
                               elt, 0, child)
             ELSE sift_up_hole(data, elt, 0, pos)

sift_down_to_bottom(data, pos) == sift_down_hole(data, data[pos + 1], pos)

\* BinaryHeap::pop on a non-empty heap: the popped item and the heap left.
BinaryHeap_pop(data) ==
    LET last == data[Len(data)]
        rest == SubSeq(data, 1, Len(data) - 1)
    IN  IF rest = <<>>
        THEN [item |-> last, data |-> <<>>]
        ELSE [item |-> rest[1],
              data |-> sift_down_to_bottom([rest EXCEPT ![1] = last], 0)]

\* Lines 122-131 with the closed set and the predecessor map of lines
\* 123-124 kept from the call before instead of made anew.
SearchInitKeepingMaps(s, g) ==
    [open_set |-> BinaryHeap_push(<<>>, Node(s, 0, manhattan_distance(s, g), "None")),
     closed_set |-> closed_set,
     came_from |-> came_from]

\* Lines 122-131: the state of a search before the first pop.
SearchInit(s, g) ==
    [open_set |-> BinaryHeap_push(<<>>, Node(s, 0, manhattan_distance(s, g), "None")),
     closed_set |-> {},
     came_from |-> <<>>]

\* Lines 150-165: the pushes of the neighbour loop from neighbour i on.
RECURSIVE PushNeighbors(_, _, _, _, _)
PushNeighbors(open, current, idx, g, i) ==
    IF i > 4 THEN open
    ELSE PushNeighbors(IF i \in idx
                       THEN BinaryHeap_push(open, PushedNode(current, i, g))
                       ELSE open,
                       current, idx, g, i + 1)

\* Lines 148-165: close the popped node current and push its neighbours;
\* rest is the heap after the pop.
Expand(st, current, rest, g, obs) ==
    LET closed == st.closed_set \cup {current.position}
        idx == PushedIndices(current, obs, closed)
    IN  [open_set |-> PushNeighbors(rest, current, idx, g, 1),
         closed_set |-> closed,
         came_from |-> InsertAll(st.came_from, current, idx)]

\* Lines 133-168: the loop from the search state st to the returned value.
RECURSIVE SearchLoop(_, _, _)
SearchLoop(st, g, obs) ==
    IF st.open_set = <<>> THEN None
    ELSE LET popped == BinaryHeap_pop(st.open_set)
             current == popped.item
         IN  IF current.position = g
             THEN Some(ReconstructPath(st.came_from, g))
             ELSE IF current.position \in st.closed_set
                  THEN SearchLoop([st EXCEPT !.open_set = popped.data], g, obs)
                  ELSE SearchLoop(Expand(st, current, popped.data, g, obs), g, obs)

\* AIAgent::find_path
find_path(s, g, obs) == SearchLoop(SearchInit(s, g), g, obs)

----------------------------------------------------------------------------
(***************************************************************************)
(* Reachability analyser, safety evaluator and fallback (lines 171-255).   *)
(***************************************************************************)

\* Line 179 with the forbidden-cell test inverted.
FloodEntersInverted(neighbor, obs, visited) ==
    neighbor \in obs /\ neighbor \notin visited

\* Line 179: a neighbour is entered when it is neither forbidden nor visited.
FloodEnters(neighbor, obs, visited) ==
    neighbor \notin obs /\ neighbor \notin visited

\* Lines 178-183: the neighbour loop of pos from neighbour i on; the queue
\* and the visited set after it.
RECURSIVE FloodNeighbors(_, _, _, _, _)
FloodNeighbors(queue, visited, obs, pos, i) ==
    IF i > 4 THEN [queue |-> queue, visited |-> visited]
    ELSE LET neighbor == neighbors(pos)[i].position
         IN  IF FloodEnters(neighbor, obs, visited)
             THEN FloodNeighbors(Append(queue, neighbor), visited \cup {neighbor},
                                 obs, pos, i + 1)
             ELSE FloodNeighbors(queue, visited, obs, pos, i + 1)

\* Lines 177-184: the loop on queue.pop_front(); the visited set it ends with.
RECURSIVE FloodLoop(_, _, _)
FloodLoop(queue, visited, obs) ==
    IF queue = <<>> THEN visited
    ELSE LET r == FloodNeighbors(Tail(queue), visited, obs, Head(queue), 1)
         IN  FloodLoop(r.queue, r.visited, obs)

\* flood_fill without line 175: start is queued but not marked visited.
flood_fill_start_unvisited(s, obs) == Cardinality(FloodLoop(<<s>>, {}, obs))

\* AIAgent::flood_fill: start is queued and visited whatever obs holds.
flood_fill(s, obs) == Cardinality(FloodLoop(<<s>>, {s}, obs))

\* The cells of a body from index i on (iter().skip(i - 1)).
BodyCells(snake_body, i) == {snake_body[k] : k \in i..Len(snake_body)}

\* AIAgent::is_safe_move
is_safe_move(next_pos, snake_body) ==
    flood_fill(next_pos, BodyCells(snake_body, 2)) > Len(snake_body)

\* The scoring loop with >= in the comparison of line 223: the last of the
\* directions of equal score is kept.
RECURSIVE SafestLoopLastOnTies(_, _, _, _, _)
SafestLoopLastOnTies(head, snake_body, current_dir, best, i) ==
    IF i > 4 THEN best.best_dir
    ELSE LET dir == Direction_all[i]
             next_pos == move_by(head, dir)
             obs == BodyCells(snake_body, 1)
             temp_obstacles == (obs \ {snake_body[Len(snake_body)]}) \cup {next_pos}
             space == flood_fill(next_pos, temp_obstacles)
         IN  IF dir = opposite(current_dir) \/ next_pos \in obs
             THEN SafestLoopLastOnTies(head, snake_body, current_dir, best, i + 1)
             ELSE IF space >= best.best_score
                  THEN SafestLoopLastOnTies(head, snake_body, current_dir,
                                            [best_dir |-> dir, best_score |-> space], i + 1)
                  ELSE SafestLoopLastOnTies(head, snake_body, current_dir, best, i + 1)

\* Lines 206-227: the scoring loop of find_safest_direction from direction i
\* on, best being the (best_dir, best_score) pair so far.
RECURSIVE SafestLoop(_, _, _, _, _)
SafestLoop(head, snake_body, current_dir, best, i) ==
    IF i > 4 THEN best.best_dir
    ELSE LET dir == Direction_all[i]
             next_pos == move_by(head, dir)
             obs == BodyCells(snake_body, 1)
             temp_obstacles == (obs \ {snake_body[Len(snake_body)]}) \cup {next_pos}
             space == flood_fill(next_pos, temp_obstacles)
         IN  IF dir = opposite(current_dir) \/ next_pos \in obs
             THEN SafestLoop(head, snake_body, current_dir, best, i + 1)
             ELSE IF space > best.best_score
                  THEN SafestLoop(head, snake_body, current_dir,
                                  [best_dir |-> dir, best_score |-> space], i + 1)
                  ELSE SafestLoop(head, snake_body, current_dir, best, i + 1)

\* find_safest_direction with best_dir starting from the first direction of
\* the enumeration instead of the current heading (line 203).
find_safest_direction_from_first(head, snake_body, current_dir) ==
    SafestLoop(head, snake_body, current_dir,
               [best_dir |-> Direction_all[1], best_score |-> 0], 1)

\* AIAgent::find_safest_direction
find_safest_direction(head, snake_body, current_dir) ==
    SafestLoop(head, snake_body, current_dir,
               [best_dir |-> current_dir, best_score |-> 0], 1)

\* decide with an empty obstacle set at line 239: the path is planned through
\* the body.
decide_through_body(snake_body, current_dir, apple_pos) ==
    LET head == snake_body[1]
        found == find_path(head, apple_pos, {})
    IN  IF /\ found.some
           /\ found.value # <<>>
           /\ is_safe_move(move_by(head, found.value[1]), snake_body)
        THEN found.value[1]
        ELSE find_safest_direction(head, snake_body, current_dir)

\* AIAgent::decide on the snake body, its active direction and the apple.
decide(snake_body, current_dir, apple_pos) ==
    LET head == snake_body[1]
        found == find_path(head, apple_pos, BodyCells(snake_body, 1))
    IN  IF /\ found.some
           /\ found.value # <<>>
           /\ is_safe_move(move_by(head, found.value[1]), snake_body)
        THEN found.value[1]
        ELSE find_safest_direction(head, snake_body, current_dir)

----------------------------------------------------------------------------
(***************************************************************************)
(* Calls of find_path on every start, goal and obstacle set of the bounds. *)
(***************************************************************************)

\* The four cells around c.
Ring(c) == {neighbors(c)[i].position : i \in 1..4}

\* The obstacle sets of the calls: the empty set, every single cell, and
\* the closed ring around every cell (the smallest set that cuts a cell off
\* from the rest of the torus).
ObstacleSets == {{}} \cup {{c} : c \in Cells} \cup {Ring(c) : c \in Cells}

\* The variables of the find_path calls, when no call is modelled.
PathIdle ==
    /\ start = Position(0, 0)
    /\ goal = Position(0, 0)
    /\ obstacles = {}
    /\ path_result = None
    /\ path_pc = "off"
    /\ open_set = <<>>
    /\ closed_set = {}
    /\ came_from = <<>>

\* The variables of the flood_fill calls, when no call is modelled.
FloodIdle ==
    /\ flood_start = Position(0, 0)
    /\ flood_less = {}
    /\ flood_more = {}
    /\ count_less = -1
    /\ count_more = -1
    /\ flood_pc = "off"

\* The variables of the spawn_apple call, when no call is modelled.
SpawnIdle ==
    /\ spawn_pos = Position(0, 0)
    /\ spawn_pc = "off"

\* The variables of the session, when no session is modelled.
GameIdle ==
    /\ body = <<>>
    /\ direction = "Right"
    /\ next_direction = "Right"
    /\ apple = Position(0, 0)
    /\ score = 0
    /\ game_over = FALSE
    /\ mode = "Human"
    /\ elapsed = FALSE
    /\ pc = "off"

PathInit ==
    /\ start \in Cells
    /\ goal \in Cells
    /\ obstacles \in ObstacleSets
    /\ path_result = None
    /\ path_pc = "idle"
    /\ open_set = <<>>
    /\ closed_set = {}
    /\ came_from = <<>>
    /\ FloodIdle
    /\ GameIdle
    /\ SpawnIdle

\* One call find_path(start, goal, &obstacles).
CallFindPath ==
    /\ path_pc = "idle"
    /\ path_result' = find_path(start, goal, obstacles)
    /\ path_pc' = "done"
    /\ UNCHANGED <<start, goal, obstacles, open_set, closed_set, came_from,
                   floodVars, gameVars, spawnVars>>

PathNext == CallFindPath

SpecPath == PathInit /\ [][PathNext]_vars

----------------------------------------------------------------------------
(***************************************************************************)
(* One call of find_path followed pop by pop: an action is one pass of the *)
(* loop of line 133, the frontier being std's BinaryHeap.                  *)
(***************************************************************************)

\* Before the call.
SearchIdle ==
    /\ start = Position(0, 0)
    /\ goal = Position(0, 0)
    /\ obstacles = {}
    /\ path_result = None
    /\ path_pc = "idle"
    /\ open_set = <<>>
    /\ closed_set = {}
    /\ came_from = <<>>
    /\ FloodIdle
    /\ GameIdle
    /\ SpawnIdle

\* Lines 121-131: find_path(s, g, &obs) is called and pushes the start node.
SearchStart(s, g, obs) ==
    /\ path_pc = "idle"
    /\ start' = s
    /\ goal' = g
    /\ obstacles' = obs
    /\ open_set' = SearchInit(s, g).open_set
    /\ closed_set' = SearchInit(s, g).closed_set
    /\ came_from' = SearchInit(s, g).came_from
    /\ path_pc' = "loop"
    /\ UNCHANGED <<path_result, floodVars, gameVars, spawnVars>>

\* The search state of the variables.
SearchState ==
    [open_set |-> open_set, closed_set |-> closed_set, came_from |-> came_from]

\* Lines 134-143: the popped node is the goal; the path is walked back and
\* returned.
PopGoal ==
    /\ path_pc = "loop"
    /\ open_set # <<>>
    /\ LET popped == BinaryHeap_pop(open_set)
       IN  /\ popped.item.position = goal
           /\ open_set' = popped.data
    /\ path_result' = Some(ReconstructPath(came_from, goal))
    /\ path_pc' = "done"
    /\ UNCHANGED <<start, goal, obstacles, closed_set, came_from,
                   floodVars, gameVars, spawnVars>>

\* Lines 145-147: the popped node is closed already; the loop continues.
PopClosed ==
    /\ path_pc = "loop"
    /\ open_set # <<>>
    /\ LET popped == BinaryHeap_pop(open_set)
       IN  /\ popped.item.position # goal
           /\ popped.item.position \in closed_set
           /\ open_set' = popped.data
    /\ UNCHANGED <<start, goal, obstacles, path_result, path_pc, closed_set,
                   came_from, floodVars, gameVars, spawnVars>>

\* Lines 148-165: the popped node is closed and its neighbours are pushed.
PopExpand ==
    /\ path_pc = "loop"
    /\ open_set # <<>>
    /\ LET popped == BinaryHeap_pop(open_set)
           next == Expand(SearchState, popped.item, popped.data, goal, obstacles)
       IN  /\ popped.item.position # goal
           /\ popped.item.position \notin closed_set
           /\ open_set' = next.open_set
           /\ closed_set' = next.closed_set
           /\ came_from' = next.came_from
    /\ UNCHANGED <<start, goal, obstacles, path_result, path_pc,
                   floodVars, gameVars, spawnVars>>

\* Lines 133 and 168: the frontier is empty; the call returns None.
FrontierEmpty ==
    /\ path_pc = "loop"
    /\ open_set = <<>>
    /\ path_result' = None
    /\ path_pc' = "done"
    /\ UNCHANGED <<start, goal, obstacles, open_set, closed_set, came_from,
                   floodVars, gameVars, spawnVars>>

\* One pass of the loop of lines 132-166, or the return of line 168.
LoopPass ==
    \/ PopGoal
    \/ PopClosed
    \/ PopExpand
    \/ FrontierEmpty

SearchNext ==
    \/ \E s \in Cells, g \in Cells, obs \in ObstacleSets : SearchStart(s, g, obs)
    \/ LoopPass

SpecSearch == SearchIdle /\ [][SearchNext]_vars

----------------------------------------------------------------------------
(***************************************************************************)
(* Calls of flood_fill on a start cell and two forbidden sets, one inside  *)
(* the other.                                                              *)
(***************************************************************************)

FloodInit ==
    /\ flood_start \in Cells
    /\ flood_more \in ObstacleSets
    /\ flood_less \in SUBSET flood_more
    /\ count_less = -1
    /\ count_more = -1
    /\ flood_pc = "idle"
    /\ PathIdle
    /\ GameIdle
    /\ SpawnIdle

\* flood_fill(flood_start, &flood_less) and flood_fill(flood_start, &flood_more).
CallFloodFill ==
    /\ flood_pc = "idle"
    /\ count_less' = flood_fill(flood_start, flood_less)
    /\ count_more' = flood_fill(flood_start, flood_more)
    /\ flood_pc' = "done"
    /\ UNCHANGED <<flood_start, flood_less, flood_more, pathVars, gameVars, spawnVars>>

FloodNext == CallFloodFill

SpecFlood == FloodInit /\ [][FloodNext]_vars

----------------------------------------------------------------------------
(***************************************************************************)
(* Snake and game state (lines 262-398) and the loop of main (589-628).    *)
(***************************************************************************)

\* u32::saturating_sub, as Snake::new uses it
u32_saturating_sub(a, b) == IF a < b THEN 0 ELSE a - b

\* Snake::new: the body of a fresh snake whose head is at head.
Snake_new(head) ==
    <<head,
      Position(u32_saturating_sub(head.x, 1), head.y),
      Position(u32_saturating_sub(head.x, 2), head.y)>>

\* Line 339, Position::new(10, 10) on the 40 x 30 grid, scaled with the grid.
InitialApple == Position(GRID_WIDTH \div 4, GRID_HEIGHT \div 3)

\* GameState::new(m): the fields of a fresh session (last_tick is now).
GameState_new(m) ==
    [body |-> Snake_new(Position(GRID_WIDTH \div 2, GRID_HEIGHT \div 2)),
     direction |-> "Right",
     next_direction |-> "Right",
     apple |-> InitialApple,
     score |-> 0,
     game_over |-> FALSE,
     elapsed |-> FALSE,
     mode |-> m]

\* The fields of the session as it is.
Game ==
    [body |-> body, direction |-> direction, next_direction |-> next_direction,
     apple |-> apple, score |-> score, game_over |-> game_over,
     elapsed |-> elapsed, mode |-> mode]

\* Snake::set_direction without the test for a reversal.
set_direction_unchecked(active, pending, dir) == dir

\* Snake::set_direction: the pending direction after the call.
set_direction(active, pending, dir) ==
    IF dir # opposite(active) THEN dir ELSE pending

\* Snake::advance, the body after push_front of the new head.
advance(snake_body, dir) == <<move_by(snake_body[1], dir)>> \o snake_body

\* Snake::shrink that leaves the tail in place.
shrink_nothing(snake_body) == snake_body

\* Snake::shrink: pop_back.
shrink(snake_body) == SubSeq(snake_body, 1, Len(snake_body) - 1)

\* Snake::contains testing the head alone.
contains_head(snake_body, pos) == snake_body[1] = pos

\* Snake::contains
contains(snake_body, pos) == \E k \in 1..Len(snake_body) : snake_body[k] = pos

\* Line 366 with all() in place of any().
SelfCollisionAll(advanced, new_head) ==
    \A k \in 2..Len(advanced) : advanced[k] = new_head

\* Line 366 with the tail cell left out of the test.
SelfCollisionNotTail(advanced, new_head) ==
    \E k \in 2..(Len(advanced) - 1) : advanced[k] = new_head

\* Line 366: body.iter().skip(1).any(|&p| p == new_head), on the body after
\* the advance and before any shrink.
SelfCollision(advanced, new_head) ==
    \E k \in 2..Len(advanced) : advanced[k] = new_head

\* spawn_apple (lines 382-397): the cells the retry loop can end on.
SpawnCells(snake_body) == {pos \in Cells : ~contains(snake_body, pos)}

\* Lines 354-356 with the early return left out.
TickEndedNever == FALSE

\* Lines 354-356: tick returns at once when the game is over.
TickEnded == game_over

\* GameState::new(GameMode::Human), line 573.
GameInit ==
    /\ body = GameState_new("Human").body
    /\ direction = GameState_new("Human").direction
    /\ next_direction = GameState_new("Human").next_direction
    /\ apple = GameState_new("Human").apple
    /\ score = GameState_new("Human").score
    /\ game_over = GameState_new("Human").game_over
    /\ elapsed = GameState_new("Human").elapsed
    /\ mode = GameState_new("Human").mode
    /\ pc = "input"
    /\ PathIdle
    /\ FloodIdle
    /\ SpawnIdle

\* Lines 597-606 with the two arms of the match giving back their own mode.
ToggledToItself(m) == m

\* Lines 596-608: the other mode.
Toggled(m) == IF m = "Human" THEN "AI" ELSE "Human"

\* The session g becomes the current one, with next_direction pending and
\* the interval test answering due.
Install(g, pending, due) ==
    /\ body' = g.body
    /\ direction' = g.direction
    /\ next_direction' = pending
    /\ apple' = g.apple
    /\ score' = g.score
    /\ game_over' = g.game_over
    /\ mode' = g.mode
    /\ elapsed' = due

\* Lines 596-608: the session after the toggle test.
AfterToggle(toggle_mode) ==
    IF toggle_mode THEN GameState_new(Toggled(mode)) ELSE Game

\* Lines 590-613, one pass of the loop up to the call of tick when the mode
\* (after the toggle) is Human: the input snapshot (input_direction is
\* "None" when no arrow key is down), the toggle with its new session, and
\* handle_input.
FrameHuman(input_direction, toggle_mode) ==
    /\ pc = "input"
    /\ LET g == AfterToggle(toggle_mode)
       IN  /\ g.mode = "Human"
           /\ Install(g,
                      IF input_direction # "None"
                      THEN set_direction(g.direction, g.next_direction, input_direction)
                      ELSE g.next_direction,
                      g.elapsed)
    /\ pc' = "tick"
    /\ UNCHANGED <<pathVars, floodVars, spawnVars>>

\* Lines 590-619, the same pass when the mode (after the toggle) is AI: the
\* agent decides and sets the direction when the interval has elapsed.
\* passed says the interval runs out before the test of line 615.
FrameAI(toggle_mode, passed) ==
    /\ pc = "input"
    /\ LET g == AfterToggle(toggle_mode)
           due == g.elapsed \/ passed
       IN  /\ g.mode = "AI"
           /\ Install(g,
                      IF due
                      THEN set_direction(g.direction, g.next_direction,
                                         decide(g.body, g.direction, g.apple))
                      ELSE g.next_direction,
                      due)
    /\ pc' = "tick"
    /\ UNCHANGED <<pathVars, floodVars, spawnVars>>

\* tick, lines 354-356: the game is over, nothing changes.  passed says the
\* interval runs out while the frame is between line 615 and line 358.
TickGameOver(passed) ==
    /\ pc = "tick"
    /\ TickEnded
    /\ elapsed' = (elapsed \/ passed)
    /\ pc' = "input"
    /\ UNCHANGED <<body, direction, next_direction, apple, score, game_over,
                   mode, pathVars, floodVars, spawnVars>>

\* tick, lines 358-360: the interval has not elapsed.
TickEarly ==
    /\ pc = "tick"
    /\ ~TickEnded
    /\ ~elapsed
    /\ pc' = "input"
    /\ UNCHANGED <<body, direction, next_direction, apple, score, game_over,
                   mode, elapsed, pathVars, floodVars, spawnVars>>

\* tick, lines 361-380: a live tick.  The pending direction is committed and
\* the head advanced; then the self-collision test, the apple test with the
\* respawn, or the shrink.  The session is followed until its score is cap.
TickLiveUpTo(passed, cap) ==
    /\ pc = "tick"
    /\ ~TickEnded
    /\ elapsed \/ passed
    /\ LET advanced == advance(body, next_direction)
           new_head == advanced[1]
       IN  /\ direction' = next_direction
           /\ IF SelfCollision(advanced, new_head)
              THEN /\ game_over' = TRUE
                   /\ body' = advanced
                   /\ UNCHANGED <<apple, score>>
              ELSE IF new_head = apple
                   THEN /\ score < cap
                        /\ score' = score + 1
                        /\ body' = advanced
                        /\ apple' \in SpawnCells(advanced)
                        /\ UNCHANGED game_over
                   ELSE /\ body' = shrink(advanced)
                        /\ UNCHANGED <<apple, score, game_over>>
    /\ elapsed' = FALSE
    /\ pc' = "input"
    /\ UNCHANGED <<next_direction, mode, pathVars, floodVars, spawnVars>>

TickLive(passed) == TickLiveUpTo(passed, MaxScore)

InputDirections == Direction \cup {"None"}

Next ==
    \/ \E d \in InputDirections, t \in BOOLEAN : FrameHuman(d, t)
    \/ \E t \in BOOLEAN, p \in BOOLEAN : FrameAI(t, p)
    \/ \E p \in BOOLEAN : TickGameOver(p)
    \/ TickEarly
    \/ \E p \in BOOLEAN : TickLive(p)

Spec == GameInit /\ [][Next]_vars

----------------------------------------------------------------------------
(***************************************************************************)
(* The session under the agent alone: Space is pressed in the first frame  *)
(* and no key after it, so that every frame is an agent frame.  Every      *)
(* state of a session in AI mode is a state of this play, since a toggle   *)
(* into AI mode always starts from the fresh session.                      *)
(***************************************************************************)

AgentTickLive(passed) == TickLiveUpTo(passed, AgentMaxScore)

AgentNext ==
    \/ \E t \in BOOLEAN, p \in BOOLEAN : FrameAI(t, p)
    \/ \E p \in BOOLEAN : TickGameOver(p)
    \/ TickEarly
    \/ \E p \in BOOLEAN : AgentTickLive(p)

SpecAgent == GameInit /\ [][AgentNext]_vars

----------------------------------------------------------------------------
(***************************************************************************)
(* The session under the agent late in a game.  A play gives, for every    *)
(* frame that advances the snake, whether the test of line 615 was true    *)
(* (decide is called) or false with the test of line 358 true all the      *)
(* same, and, for every apple eaten, the cell spawn_apple ended on.  The    *)
(* session a play leaves is where the frames below start; from there every *)
(* reading of the timer and every cell of spawn_apple is followed.         *)
(***************************************************************************)

\* Two plays from the fresh session in AI mode, each up to the fifth apple.
LatePlays ==
    {[decided |-> <<TRUE, TRUE, TRUE, FALSE, TRUE, FALSE, TRUE, FALSE, TRUE,
                    TRUE, FALSE, TRUE, FALSE, TRUE>>,
      draws |-> <<Position(1, 0), Position(3, 0), Position(0, 0),
                  Position(2, 0), Position(1, 0)>>],
     [decided |-> <<TRUE, TRUE, TRUE, FALSE, TRUE, TRUE, FALSE, FALSE, TRUE,
                    FALSE, FALSE, TRUE, TRUE, TRUE, FALSE, TRUE, FALSE, TRUE>>,
      draws |-> <<Position(1, 0), Position(0, 0), Position(2, 0),
                  Position(0, 0), Position(3, 0)>>]}

\* Lines 614-622 on the session g in AI mode, in a frame whose tick is live:
\* decide and set_direction when called, then tick with the interval elapsed
\* at line 358; pos is the cell spawn_apple ends on if the snake eats.
FrameAndTick(g, called, pos) ==
    LET pending == IF called
                   THEN set_direction(g.direction, g.next_direction,
                                      decide(g.body, g.direction, g.apple))
                   ELSE g.next_direction
        advanced == advance(g.body, pending)
        new_head == advanced[1]
        moved == [g EXCEPT !.direction = pending, !.next_direction = pending,
                           !.elapsed = FALSE]
    IN  IF SelfCollision(advanced, new_head)
        THEN [moved EXCEPT !.body = advanced, !.game_over = TRUE]
        ELSE IF new_head = g.apple
             THEN [moved EXCEPT !.body = advanced, !.score = g.score + 1,
                                !.apple = pos]
             ELSE [moved EXCEPT !.body = shrink(advanced)]

\* The session after the frames of a play, from g on.  The play stops where
\* the game is over, and before a frame whose draw is a cell of the snake,
\* on which spawn_apple cannot end.
RECURSIVE AgentPlay(_, _, _)
AgentPlay(g, decided, draws) ==
    IF decided = <<>> \/ g.game_over THEN g
    ELSE LET pos == IF draws = <<>> THEN g.body[1] ELSE Head(draws)
             after == FrameAndTick(g, Head(decided), pos)
             ate == after.score > g.score
         IN  IF ate /\ contains(after.body, pos)
             THEN g
             ELSE AgentPlay(after, Tail(decided),
                            IF ate THEN Tail(draws) ELSE draws)

\* The running sessions the plays leave.
LateSessions ==
    {g \in {AgentPlay(GameState_new("AI"), p.decided, p.draws) : p \in LatePlays} :
        ~g.game_over}

LateInit ==
    /\ \E g \in LateSessions :
          /\ body = g.body
          /\ direction = g.direction
          /\ next_direction = g.next_direction
          /\ apple = g.apple
          /\ score = g.score
          /\ game_over = g.game_over
          /\ elapsed = g.elapsed
          /\ mode = g.mode
    /\ pc = "input"
    /\ PathIdle
    /\ FloodIdle
    /\ SpawnIdle

LateTickLive(passed) == TickLiveUpTo(passed, LateMaxScore)

LateNext ==
    \/ \E t \in BOOLEAN, p \in BOOLEAN : FrameAI(t, p)
    \/ \E p \in BOOLEAN : TickGameOver(p)
    \/ TickEarly
    \/ \E p \in BOOLEAN : LateTickLive(p)

SpecAgentLate == LateInit /\ [][LateNext]_vars

----------------------------------------------------------------------------
(***************************************************************************)
(* One call of spawn_apple (lines 382-397), iteration by iteration, on a   *)
(* snake that has just eaten and fills the grid but for one cell.          *)
(***************************************************************************)

\* The cells of the grid row after row, every other row backwards: each
\* cell is next to the one before it.
Serpentine ==
    [i \in 1..(GRID_WIDTH * GRID_HEIGHT) |->
        LET row == (i - 1) \div GRID_WIDTH
            col == (i - 1) % GRID_WIDTH
        IN  Position(IF row % 2 = 0 THEN col ELSE GRID_WIDTH - 1 - col, row)]

\* The cells of cells_seq moved by the offset by, with wrap-around.
Shifted(cells_seq, by) ==
    [i \in DOMAIN cells_seq |->
        Position(rem_euclid(cells_seq[i].x + by.x, GRID_WIDTH),
                 rem_euclid(cells_seq[i].y + by.y, GRID_HEIGHT))]

\* Snake bodies, head first, that leave one cell of the grid free: a
\* serpentine without its first or its last cell, either end being the
\* head, at every offset.
FullSnakes ==
    LET n == GRID_WIDTH * GRID_HEIGHT
    IN  UNION {LET p == Shifted(Serpentine, by)
               IN  {SubSeq(p, 1, n - 1), Reverse(SubSeq(p, 1, n - 1)),
                    SubSeq(p, 2, n), Reverse(SubSeq(p, 2, n))} : by \in Cells}

\* The direction of the advance that made the head of snake_body.
HeadingOf(snake_body) ==
    CHOOSE dir \in Direction : move_by(snake_body[2], dir) = snake_body[1]

\* tick at line 375, in its first iteration of the loop of spawn_apple: the
\* head is on the apple it has eaten, the score is incremented, and a first
\* position is sampled.
SpawnInit ==
    /\ body \in FullSnakes
    /\ direction = HeadingOf(body)
    /\ next_direction = direction
    /\ apple = body[1]
    /\ score = Len(body) - 3
    /\ game_over = FALSE
    /\ mode = "Human"
    /\ elapsed = FALSE
    /\ pc = "tick"
    /\ spawn_pos \in Cells
    /\ spawn_pc = "test"
    /\ PathIdle
    /\ FloodIdle

\* Lines 392-395: the sampled position becomes the apple and the loop ends
\* when the snake does not contain it; otherwise the loop goes round.
SpawnTest ==
    /\ spawn_pc = "test"
    /\ IF ~contains(body, spawn_pos)
       THEN /\ apple' = spawn_pos
            /\ spawn_pc' = "done"
       ELSE /\ spawn_pc' = "draw"
            /\ UNCHANGED apple
    /\ UNCHANGED <<body, direction, next_direction, score, game_over, mode,
                   elapsed, pc, spawn_pos, pathVars, floodVars>>

\* Lines 387-390: the sampler gives the position pos.
SpawnDraw(pos) ==
    /\ spawn_pc = "draw"
    /\ spawn_pos' = pos
    /\ spawn_pc' = "test"
    /\ UNCHANGED <<gameVars, pathVars, floodVars>>

SpawnNext ==
    \/ SpawnTest
    \/ \E pos \in Cells : SpawnDraw(pos)

\* The sampler gives a position the snake does not contain.
SpawnDrawFree == \E pos \in SpawnCells(body) : SpawnDraw(pos)

\* The loop runs on, and the sampler is fair: it draws every position with
\* the same positive probability, so that a sampler asked again and again
\* gives a position off the snake in the end.
SpawnFairness ==
    /\ WF_vars(SpawnTest)
    /\ SF_vars(SpawnDrawFree)

SpecSpawn == SpawnInit /\ [][SpawnNext]_vars /\ SpawnFairness

----------------------------------------------------------------------------
(***************************************************************************)
(* Reference notions the properties are stated with.                       *)
(***************************************************************************)

\* The cells one wrapped orthogonal step away from c.
WrapNeighbours(c) ==
    {[x |-> (c.x + 1) % GRID_WIDTH, y |-> c.y],
     [x |-> (c.x - 1) % GRID_WIDTH, y |-> c.y],
     [x |-> c.x, y |-> (c.y + 1) % GRID_HEIGHT],
     [x |-> c.x, y |-> (c.y - 1) % GRID_HEIGHT]}

\* The least set that holds S and every permitted cell next to a cell of it.
RECURSIVE Closure(_, _)
Closure(S, forbidden) ==
    LET more == S \cup {n \in Cells \ forbidden : \E c \in S : n \in WrapNeighbours(c)}
    IN  IF more = S THEN S ELSE Closure(more, forbidden)

\* s and every cell reachable from s by wrapped moves that enter no forbidden cell.
Reachable(s, forbidden) == Closure({s}, forbidden)

\* The number of moves of a shortest route from the cells of frontier to g
\* that enters no forbidden cell, k moves being made already; -1 if none.
RECURSIVE Layers(_, _, _, _, _)
Layers(frontier, seen, g, forbidden, k) ==
    IF g \in frontier THEN k
    ELSE IF frontier = {} THEN -1
    ELSE LET nxt == {n \in Cells \ (forbidden \cup seen) :
                        \E c \in frontier : n \in WrapNeighbours(c)}
         IN  Layers(nxt, seen \cup nxt, g, forbidden, k + 1)

ShortestLength(s, g, forbidden) == Layers({s}, {s}, g, forbidden, 0)

\* No route through a wrap-around edge is shorter than the straight one.
NoWrapShortcut(s, g) ==
    /\ 2 * abs(s.x - g.x) <= GRID_WIDTH
    /\ 2 * abs(s.y - g.y) <= GRID_HEIGHT

\* The cells entered by making the moves of path from pos, in order.
RECURSIVE CellsEntered(_, _)
CellsEntered(pos, path) ==
    IF path = <<>> THEN <<>>
    ELSE LET n == [x |-> (pos.x + delta(Head(path))[1]) % GRID_WIDTH,
                   y |-> (pos.y + delta(Head(path))[2]) % GRID_HEIGHT]
         IN  <<n>> \o CellsEntered(n, Tail(path))

----------------------------------------------------------------------------
(***************************************************************************)
(* Properties of find_path, under SpecPath.                                *)
(***************************************************************************)

\* C1: with no obstacles and no shorter route through a wrap-around edge,
\* find_path returns a sequence of exactly manhattan_distance(start, goal)
\* moves.
C1_StraightPathHasManhattanLength ==
    (path_pc = "done" /\ obstacles = {} /\ NoWrapShortcut(start, goal))
        => /\ path_result.some
           /\ Len(path_result.value) = manhattan_distance(start, goal)

\* C2: a returned sequence is a shortest one: no shorter sequence of moves
\* leads from start to goal while avoiding every obstacle cell.
C2_ReturnedPathIsShortest ==
    (path_pc = "done" /\ path_result.some)
        => Len(path_result.value) <= ShortestLength(start, goal, obstacles)

\* C3: a returned sequence, applied move by move from start with wrap-around,
\* ends at goal, and no cell entered after start is an obstacle.
C3_PathReachesGoalAvoidingObstacles ==
    (path_pc = "done" /\ path_result.some)
        => LET entered == CellsEntered(start, path_result.value)
           IN  /\ \A k \in 1..Len(entered) : entered[k] \notin obstacles
               /\ IF entered = <<>> THEN start = goal
                  ELSE entered[Len(entered)] = goal

\* C3 witness: a path was returned although an obstacle lies on a straight
\* route between start and goal.
C3_Witness ==
    /\ path_pc = "done"
    /\ path_result.some
    /\ Len(path_result.value) >= 2
    /\ \E o \in obstacles :
          /\ o # start
          /\ manhattan_distance(start, o) + manhattan_distance(o, goal)
                = manhattan_distance(start, goal)

\* C4: with start # goal, find_path returns "no path" exactly when goal
\* cannot be reached from start by wrapped moves that enter only
\* non-obstacle cells.
C4_NoPathIffUnreachable ==
    (path_pc = "done" /\ start # goal)
        => (~path_result.some <=> goal \notin Reachable(start, obstacles))

\* C4 witness: "no path" for a goal that is no obstacle itself but walled in.
C4_Witness ==
    /\ path_pc = "done"
    /\ start # goal
    /\ ~path_result.some
    /\ goal \notin obstacles
    /\ start \notin obstacles

----------------------------------------------------------------------------
(***************************************************************************)
(* Properties of find_path followed pop by pop, under SpecSearch.           *)
(***************************************************************************)

\* The number of moves of a returned value, -1 for "no path".
ResultLength(result) == IF result.some THEN Len(result.value) ELSE -1

C17_PredecessorEntryNeverRevised ==
    [][\A c \in DOMAIN came_from :
          /\ c \in DOMAIN came_from'
          /\ came_from'[c] = came_from[c]]_vars

\* The cells of the predecessor chain of cf from pos back, pos first, as
\* far as the map has entries; at most fuel steps are followed.
RECURSIVE Chain(_, _, _)
Chain(cf, pos, fuel) ==
    IF pos \notin DOMAIN cf \/ fuel = 0 THEN <<pos>>
    ELSE <<pos>> \o Chain(cf,
                          [x |-> (pos.x - delta(cf[pos])[1]) % GRID_WIDTH,
                           y |-> (pos.y - delta(cf[pos])[2]) % GRID_HEIGHT],
                          fuel - 1)

\* What is left to a call inside its loop: five for each cell that is not
\* closed, one for each node of the frontier.  A pass of the loop that
\* closes a cell pushes four nodes at most and pops one.
WorkLeft == 5 * Cardinality(Cells \ closed_set) + Len(open_set)

\* Inside the loop one of the four branches is taken: the return of None on
\* an empty frontier, and on a popped node the return of the path, the skip
\* of a closed node, or the expansion.
PassPossible ==
    \/ open_set = <<>>
    \/ /\ open_set # <<>>
       /\ LET current == BinaryHeap_pop(open_set).item
          IN  \/ current.position = goal
              \/ current.position # goal /\ current.position \in closed_set
              \/ current.position # goal /\ current.position \notin closed_set

\* C18: a call of find_path comes to its end, since inside the loop a pass
\* is always possible and every pass either returns or leaves less work
\* than it found, of an amount that is never negative; and when the call
\* returns a path, the predecessor chain walked back from the goal visits
\* no cell twice and ends at start.
C18_SearchEndsWithAcyclicChain ==
    /\ [][path_pc = "loop" => (path_pc' = "done" \/ WorkLeft' < WorkLeft)]_vars
    /\ [](path_pc = "loop" => (WorkLeft >= 0 /\ PassPossible))
    /\ [](path_pc = "done" /\ path_result.some
            => LET chain == Chain(came_from, goal, 2 * GRID_WIDTH * GRID_HEIGHT)
               IN  /\ chain[Len(chain)] = start
                   /\ chain[Len(chain)] \notin DOMAIN came_from
                   /\ \A i, j \in 1..Len(chain) : i # j => chain[i] # chain[j]
                   /\ Len(path_result.value) = Len(chain) - 1)

\* C18 witness: a call has returned a path after it revised predecessor
\* entries: the path is longer than a shortest one, and its chain still
\* leads back to start.
C18_Witness ==
    /\ path_pc = "done"
    /\ path_result.some
    /\ open_set # <<>>
    /\ Len(path_result.value) > ShortestLength(start, goal, obstacles)
    /\ obstacles # {}

----------------------------------------------------------------------------
(***************************************************************************)
(* Properties of flood_fill, under SpecFlood.                              *)
(***************************************************************************)

\* C5: flood_fill returns the number of cells of the set made of start and
\* every cell reachable from it without entering a forbidden cell.
C5_FloodFillCountsReachable ==
    flood_pc = "done"
        => /\ count_less = Cardinality(Reachable(flood_start, flood_less))
           /\ count_more = Cardinality(Reachable(flood_start, flood_more))

\* C5 witness: start is itself forbidden, is counted, and other cells are
\* reached from it.
C5_Witness ==
    /\ flood_pc = "done"
    /\ flood_start \in flood_more
    /\ count_more > 1

\* C6: a forbidden set that includes another never reaches more cells.
C6_FloodFillMonotone ==
    flood_pc = "done" => count_more <= count_less

\* C6 witness: the added forbidden cells cut the count down, below what a
\* non-empty smaller set leaves.
C6_Witness ==
    /\ flood_pc = "done"
    /\ flood_less # {}
    /\ count_more < count_less

----------------------------------------------------------------------------
(***************************************************************************)
(* Properties of the session, under Spec.                                  *)
(***************************************************************************)

\* The cell the head enters on the next advance: one wrapped step from the
\* head in the pending direction.
NextHeadCell ==
    [x |-> (body[1].x + delta(next_direction)[1]) % GRID_WIDTH,
     y |-> (body[1].y + delta(next_direction)[2]) % GRID_HEIGHT]

\* A step of a live tick that has not ended the game before: from line 622
\* the snake has advanced.
LiveTickStep == pc = "tick" /\ ~game_over /\ body' # body

\* C7: outside of a self-collision, consecutive body cells are orthogonally
\* adjacent under wrap arithmetic and no two body cells are equal.
C7_SnakeBodyWellFormed ==
    ~game_over
        => /\ \A k \in 1..(Len(body) - 1) : body[k + 1] \in WrapNeighbours(body[k])
           /\ \A i, j \in 1..Len(body) : i # j => body[i] # body[j]

\* C7 witness: a running session whose snake has grown twice, lies across a
\* wrap-around edge and has its head next to a cell of its own body other
\* than the neck.
C7_Witness ==
    /\ ~game_over
    /\ Len(body) = 5
    /\ \E k \in 1..4 : abs(body[k].x - body[k + 1].x) > 1
    /\ \E k \in 3..5 : body[k] \in WrapNeighbours(body[1])

\* C8: a live tick ends in GameOver exactly when the cell the head advances
\* to is a cell of the body as it stood before the advance, the tail cell
\* included.
C8_GameOverIffHeadHitsBody ==
    [][LiveTickStep
        => (game_over' <=> \E k \in 1..Len(body) : body[k] = NextHeadCell)]_vars

\* C8 witness: the game is over with the head on the cell that was the tail
\* before the advance.
C8_Witness ==
    /\ game_over
    /\ Len(body) >= 4
    /\ body[1] = body[Len(body)]

\* C9: a tick in GameOver leaves the snake body, the score, the apple and
\* the game-over flag as they are.
C9_GameOverTickChangesNothing ==
    [][(pc = "tick" /\ game_over)
        => /\ body' = body
           /\ score' = score
           /\ apple' = apple
           /\ game_over']_vars

\* C9 witness: the game is over and a whole frame has passed since: a
\* direction was taken in after the collision (the pending direction
\* differs from the one the collision committed) and tick has returned.
C9_Witness ==
    /\ game_over
    /\ pc = "input"
    /\ next_direction # direction

\* C10: on a live tick without self-collision, a head on the apple adds one
\* to the score and to the length and puts the new apple off the snake; any
\* other head leaves score, apple and length as they are.
C10_AppleOrShrink ==
    [][(LiveTickStep /\ ~game_over')
        => IF NextHeadCell = apple
           THEN /\ score' = score + 1
                /\ Len(body') = Len(body) + 1
                /\ \A k \in 1..Len(body') : body'[k] # apple'
           ELSE /\ score' = score
                /\ apple' = apple
                /\ Len(body') = Len(body)]_vars

\* C10 witness: the snake has eaten, grown by one per apple, and the apple
\* is off the snake.
C10_Witness ==
    /\ ~game_over
    /\ score >= 1
    /\ Len(body) = 3 + score
    /\ \A k \in 1..Len(body) : body[k] # apple

\* The session as GameState::new leaves it: the three cells of the fresh
\* snake from the middle of the grid leftwards, heading Right, the apple a
\* quarter of the width and a third of the height into the grid, which is
\* (20,15), (19,15), (18,15) and (10,10) on the 40 x 30 grid.
InitialSessionState ==
    /\ body = <<[x |-> GRID_WIDTH \div 2, y |-> GRID_HEIGHT \div 2],
                [x |-> GRID_WIDTH \div 2 - 1, y |-> GRID_HEIGHT \div 2],
                [x |-> GRID_WIDTH \div 2 - 2, y |-> GRID_HEIGHT \div 2]>>
    /\ direction = "Right"
    /\ apple = [x |-> GRID_WIDTH \div 4, y |-> GRID_HEIGHT \div 3]
    /\ score = 0
    /\ ~game_over

\* C13: a frame whose input asks for the exact opposite of the active
\* direction calls set_direction with it and leaves the pending direction as
\* it was, whatever the active and the pending direction are; frames follow
\* one another between two advances while the interval has not elapsed, so
\* this holds for any number of such calls.
C13_OppositeLeavesPendingUnchanged ==
    [][FrameHuman(opposite(direction), FALSE)
        => next_direction' = next_direction]_vars

\* C13 witness: a frame has handled its input in a running session and the
\* pending direction is a turn, neither the active direction nor its
\* opposite, while the interval has not elapsed: more frames come before
\* the advance.
C13_Witness ==
    /\ pc = "tick"
    /\ mode = "Human"
    /\ ~game_over
    /\ ~elapsed
    /\ next_direction # direction
    /\ next_direction # opposite(direction)
    /\ direction # "Right"

\* A frame whose input has the mode toggle set, up to its call of tick.
ToggleFrame ==
    \/ \E d \in Direction \cup {"None"} : FrameHuman(d, TRUE)
    \/ \E p \in BOOLEAN : FrameAI(TRUE, p)

\* C14: a mode toggle, in a running or an ended session of either mode,
\* leaves a fresh session: the mode is the other one, the snake is the
\* initial three cells heading Right, the score is zero and the game-over
\* flag is clear.
C14_ToggleStartsFreshSession ==
    [][ToggleFrame
        => /\ mode' # mode
           /\ mode' \in {"Human", "AI"}
           /\ body' = <<[x |-> GRID_WIDTH \div 2, y |-> GRID_HEIGHT \div 2],
                        [x |-> GRID_WIDTH \div 2 - 1, y |-> GRID_HEIGHT \div 2],
                        [x |-> GRID_WIDTH \div 2 - 2, y |-> GRID_HEIGHT \div 2]>>
           /\ direction' = "Right"
           /\ score' = 0
           /\ ~game_over']_vars

\* C14 witness: a session in AI mode, which only a toggle starts, is fresh
\* and about to tick for the first time.
C14_Witness ==
    /\ mode = "AI"
    /\ pc = "tick"
    /\ InitialSessionState

----------------------------------------------------------------------------
(***************************************************************************)
(* Properties of spawn_apple, under SpecSpawn.                             *)
(***************************************************************************)

\* The cells of the grid that are no cell of the snake.
FreeCells == Cells \ {body[k] : k \in 1..Len(body)}

\* C15: with the snake on all but one cell and the apple eaten, the loop of
\* spawn_apple ends, under fair sampling, and the apple is then on the one
\* free cell.
C15_SpawnEndsOnTheFreeCell ==
    (spawn_pc \in {"test", "draw"} /\ Cardinality(FreeCells) = 1)
        ~> (spawn_pc = "done" /\ FreeCells = {apple})

\* C15 witness: the loop has ended with the apple moved off the head, where
\* it was eaten, to the one cell the snake leaves free.
C15_Witness ==
    /\ spawn_pc = "done"
    /\ Len(body) = GRID_WIDTH * GRID_HEIGHT - 1
    /\ apple # body[1]
    /\ apple = spawn_pos
    /\ \A k \in 1..Len(body) : body[k] # apple

----------------------------------------------------------------------------
(***************************************************************************)
(* Properties of the agent's play, under SpecAgent and SpecAgentLate.       *)
(***************************************************************************)

\* The free cells that can be reached from the head of the snake b.
FreeReachable(b) == Reachable(b[1], {b[k] : k \in 1..Len(b)}) \ {b[1]}

\* is_safe_move is false for every direction from the head of the snake b.
NoSafeMove(b) == \A d \in Direction : ~is_safe_move(move_by(b[1], d), b)

\* The frame has called decide and set_direction (lines 615-618) and is
\* about to call tick (line 622).
AgentDecided == pc = "tick" /\ mode = "AI" /\ ~game_over /\ elapsed

\* C11 as stated: when is_safe_move is false for every direction and the
\* snake has enclosed itself leaving fewer than 4 reachable cells, the
\* pending direction after the decision is the current heading, and the
\* tick that follows ends in GameOver with the score it had before.
C11_EnclosedUnderFourKeepsHeadingAndDies ==
    [][(AgentDecided /\ NoSafeMove(body) /\ Cardinality(FreeReachable(body)) < 4)
        => /\ next_direction = direction
           /\ game_over'
           /\ score' = score]_vars

\* C11, amended: when is_safe_move is false for every direction and the
\* snake has enclosed itself leaving no reachable cell, the pending
\* direction after the decision is the current heading, and the tick that
\* follows ends in GameOver with the score it had before.
C11_EnclosedKeepsHeadingAndDies ==
    [][(AgentDecided /\ NoSafeMove(body) /\ FreeReachable(body) = {})
        => /\ next_direction = direction
           /\ game_over'
           /\ score' = score]_vars

\* C11 witness: the agent's session is over, and the snake as it was before
\* the last advance had no safe move and no reachable cell.
C11_Witness ==
    /\ mode = "AI"
    /\ game_over
    /\ pc = "input"
    /\ NoSafeMove(Tail(body))
    /\ FreeReachable(Tail(body)) = {}

\* C12: in the initial session state the direction the agent decides on
\* moves the head to a cell strictly closer to the apple, in Manhattan
\* distance, than the head is.
C12_FirstDecisionApproachesApple ==
    (AgentDecided /\ InitialSessionState)
        => abs(NextHeadCell.x - apple.x) + abs(NextHeadCell.y - apple.y)
              < abs(body[1].x - apple.x) + abs(body[1].y - apple.y)

\* C12 witness: the agent has decided in the initial session state, and has
\* turned the snake off its heading.
C12_Witness ==
    /\ AgentDecided
    /\ InitialSessionState
    /\ next_direction # direction

\* The directions the fallback scores for the snake b heading cur: not the
\* reverse of cur, and with a target cell that is not in the body.
Qualifying(b, cur) ==
    {d \in Direction : d # opposite(cur) /\ move_by(b[1], d) \notin BodyCells(b, 1)}

\* The number of cells the flood fill counts from the target of d: the target
\* and every cell reachable from it that is not of the body less its tail.
SpaceAhead(b, d) ==
    LET next_pos == move_by(b[1], d)
    IN  Cardinality(Reachable(next_pos,
                              (BodyCells(b, 1) \ {b[Len(b)]}) \cup {next_pos}))

\* The place of d in the order Up, Down, Left, Right.
OrderOf(d) == CHOOSE i \in 1..4 : Direction_all[i] = d

\* The qualifying direction of largest space, the earliest one on ties.
Maximiser(b, cur) ==
    LET scored == {<<d, SpaceAhead(b, d)>> : d \in Qualifying(b, cur)}
        first == CHOOSE p \in scored :
                     \A q \in scored :
                         \/ p[2] > q[2]
                         \/ p[2] = q[2] /\ OrderOf(p[1]) <= OrderOf(q[1])
    IN  first[1]

\* The fallback is what decides: find_path gives no first step, or one that
\* is_safe_move rejects (lines 246-254).
FallbackDecides ==
    LET found == find_path(body[1], apple, BodyCells(body, 1))
    IN  ~(/\ found.some
          /\ found.value # <<>>
          /\ is_safe_move(move_by(body[1], found.value[1]), body))

\* C19: on the snake and heading of every state of the agent's play,
\* find_safest_direction returns the qualifying direction of largest
\* flood-fill count, the earliest in Up, Down, Left, Right on ties, when a
\* direction qualifies; and it returns the current heading exactly when no
\* direction qualifies or the heading is that maximiser.
C19_FallbackReturnsEarliestMaximiser ==
    LET chosen == find_safest_direction(body[1], body, direction)
        none == Qualifying(body, direction) = {}
        best == Maximiser(body, direction)
    IN  /\ ~none => chosen = best
        /\ chosen = direction <=> (none \/ direction = best)

\* C19 witness: the fallback has decided the frame's direction, two
\* qualifying directions tie for the largest space, and the direction set
\* is not the heading.
C19_Witness ==
    /\ AgentDecided
    /\ FallbackDecides
    /\ next_direction = find_safest_direction(body[1], body, direction)
    /\ next_direction # direction
    /\ \E e \in Qualifying(body, direction) \ {next_direction} :
           SpaceAhead(body, e) = SpaceAhead(body, next_direction)

\* C20: in agent mode every advance of the snake is made by the tick of a
\* frame that has called decide (the test of line 615 was true), and the
\* direction the advance commits is what decide returns on the snake, the
\* heading and the apple as they are before the advance.
C20_EveryAdvanceFollowsSameFrameDecision ==
    [][(pc = "tick" /\ mode = "AI" /\ body' # body)
        => /\ elapsed
           /\ direction' = decide(body, direction, apple)]_vars

\* The cells next to the head of the snake b heading cur, the one behind it
\* left out.
NonReverseNeighbours(b, cur) ==
    {move_by(b[1], d) : d \in Direction \ {opposite(cur)}}

\* C21: in every running state of the agent's play, the direction decide
\* returns is not the reverse of the active heading, and it moves the head
\* onto a cell that is not occupied by the body unless the three cells next
\* to the head that are not behind it are all occupied by the body.
C21_DecisionIsForwardOntoFreeCell ==
    (mode = "AI" /\ ~game_over)
        => LET action == decide(body, direction, apple)
           IN  /\ action # opposite(direction)
               /\ \/ move_by(body[1], action) \notin BodyCells(body, 1)
                  \/ NonReverseNeighbours(body, direction) \subseteq BodyCells(body, 1)

\* C21 witness: the agent has decided in a running state where the body
\* occupies all but one of the cells next to the head that are not behind
\* it, and the direction set turns the snake onto that cell.
C21_Witness ==
    /\ AgentDecided
    /\ next_direction = decide(body, direction, apple)
    /\ next_direction # direction
    /\ Cardinality(NonReverseNeighbours(body, direction) \ BodyCells(body, 1)) = 1
    /\ move_by(body[1], next_direction) \notin BodyCells(body, 1)

=============================================================================
